---- MODULE Spec2Model ----
(***************************************************************************)
(* mcptube: the orchestration service (McpTubeService), the SQLite entity  *)
(* store and the Chroma-backed semantic index, as a state machine.         *)
(*                                                                         *)
(* Strings are sequences of one-character strings, so that str.isdigit,    *)
(* int, str.lower, str.strip and the substring test are computed the way   *)
(* Python computes them.  Times (seconds, timestamps) are integers.        *)
(***************************************************************************)
EXTENDS Integers, Sequences, FiniteSets, TLC

VARIABLES
    store,        \* SQLite table videos: video_id -> row (DOMAIN = stored ids)
    index,        \* Chroma collection: the set of stored fragments
    clock,        \* the wall clock read by Video.added_at's default factory
    vectorstore,  \* McpTubeService._vectorstore is not None
    last          \* the most recent call: operation, arguments, outcome

vars == <<store, index, clock, vectorstore, last>>

(***************************************************************************)
(* Bounds of the model.                                                    *)
(***************************************************************************)
\* the number of videos extracted in one behaviour (readings of the clock):
\* MaxClock where the index engine may fail, MaxLibrary where the library is
\* built for the resolver, MaxSaves where the repository is called directly
MaxClock == 2
MaxLibrary == 3
MaxSaves == 3
\* ChromaVectorStore._BATCH_SIZE is 500; the model scales the ceiling down
\* so that a transcript of a few segments spans more than one batch.
BATCH_SIZE == 2

(***************************************************************************)
(* Strings.                                                                *)
(***************************************************************************)
DecimalChars == {"0", "1", "2", "3", "4", "5", "6", "7", "8", "9"}
\* str.isdigit is also true of digits int() does not accept (superscripts)
SuperscriptChars == {"^2"}
Whitespace == {" "}

DecimalValue(c) ==
    CASE c = "0" -> 0 [] c = "1" -> 1 [] c = "2" -> 2 [] c = "3" -> 3
      [] c = "4" -> 4 [] c = "5" -> 5 [] c = "6" -> 6 [] c = "7" -> 7
      [] c = "8" -> 8 [] c = "9" -> 9

\* str.isdigit(): non-empty and every character a digit
isdigit(s) == Len(s) > 0 /\ \A i \in 1..Len(s) : s[i] \in DecimalChars \cup SuperscriptChars

\* int(s) raises ValueError unless every character is a decimal digit
IntParses(s) == Len(s) > 0 /\ \A i \in 1..Len(s) : s[i] \in DecimalChars

RECURSIVE int(_)
int(s) == IF Len(s) = 0 THEN 0
          ELSE 10 * int(SubSeq(s, 1, Len(s) - 1)) + DecimalValue(s[Len(s)])

LowerChar(c) ==
    CASE c = "A" -> "a" [] c = "B" -> "b" [] c = "C" -> "c" [] c = "D" -> "d"
      [] c = "E" -> "e" [] c = "P" -> "p" [] c = "I" -> "i"
      [] OTHER -> c

\* str.lower()
lower(s) == [i \in 1..Len(s) |-> LowerChar(s[i])]

\* the Python test `q in t` on strings
Contains(q, t) ==
    \E k \in 0..(Len(t) - Len(q)) : SubSeq(t, k + 1, k + Len(q)) = q

RECURSIVE lstrip(_)
lstrip(s) == IF Len(s) > 0 /\ Head(s) \in Whitespace THEN lstrip(Tail(s)) ELSE s

RECURSIVE rstrip(_)
rstrip(s) == IF Len(s) > 0 /\ s[Len(s)] \in Whitespace
             THEN rstrip(SubSeq(s, 1, Len(s) - 1)) ELSE s

\* str.strip()
strip(s) == rstrip(lstrip(s))

\* str(i) for i >= 0
RECURSIVE str(_)
str(i) ==
    LET d == CHOOSE c \in DecimalChars : DecimalValue(c) = i % 10
    IN IF i < 10 THEN <<d>> ELSE str(i \div 10) \o <<d>>

(***************************************************************************)
(* The data the model draws its inputs from.                               *)
(***************************************************************************)
V1 == <<"d", "Q", "w", "4", "w", "9", "W", "g", "X", "c", "Q">>
V2 == <<"a", "b", "c", "1", "2", "3", "4", "5", "6", "7", "8">>
\* an identifier made of digits only
V3 == <<"0", "0", "0", "0", "0", "0", "0", "0", "0", "0", "2">>
VideoIds == {V1, V2, V3}

\* A URL is its text up to the identifier, as one token, then the characters
\* that follow.  One URL per accepted format, one with an identifier that is
\* too short and one of another site.
Urls ==
    { <<"youtube.com/watch?v=">> \o V1, <<"youtu.be/">> \o V1,
      <<"youtube.com/embed/">> \o V2, <<"youtube.com/v/">> \o V3,
      <<"example.com/?v=">> \o V3,
      <<"youtu.be/">> \o <<"a", "b", "c">>, <<"example.com/">> \o V1 }

\* What the platform holds for each identifier (title, channel, chapters)
Catalogue(v) ==
    CASE v = V1 -> [title    |-> <<"D", "e", "e", "p", " ", "2">>,
                    channel  |-> <<"E", "d", "u">>,
                    chapters |-> << [title |-> <<"I">>, start |-> 0] >>]
      [] v = V2 -> [title    |-> <<"A", "I">>,
                    channel  |-> <<"D", "e", "e", "p", "C">>,
                    chapters |-> << >>]
      [] v = V3 -> [title    |-> V2 \o <<"!">>,
                    channel  |-> <<"E", "d", "u">>,
                    chapters |-> << >>]

\* TranscriptSegment(start, duration, text)
Seg(s, d, t) == [start |-> s, duration |-> d, text |-> t]
S1 == Seg(0, 5, <<"h", "i">>)
S2 == Seg(5, 4, <<"o", "k">>)
S3 == Seg(9, 0, <<"y", "o">>)
\* segments _parse_json3 never yields but TranscriptSegment admits
SPad   == Seg(2, 3, <<" ", "o", "k", " ">>)
SBlank == Seg(7, 1, <<" ">>)

\* transcripts the extractor returns (texts stripped, never blank)
Transcripts == { <<>>, <<S1, S2>>, <<S2, S1, S3>> }
\* segment lists handed to index_video directly
SegmentLists == Transcripts \cup { <<SBlank>>, <<S1, SBlank, SPad>> }

\* tag lists the classifier returns
TagLists == { <<"AI">>, <<"ML", "AI">> }

\* queries given to resolve_video
ResolveQueries ==
    VideoIds \cup
    { <<"0">>, <<"1">>, <<"2">>, <<"3">>, <<"4">>, <<"0", "1">>, <<"^2">>,
      <<"d", "e", "e", "p">>, <<"D", "E", "E", "P">>, <<"E", "d", "u">>,
      <<"A", "i">>, <<"z">>, <<>> }

\* queries given to search
SearchQueries == { <<"h", "i">>, <<"o", "k">> }

(***************************************************************************)
(* models.py                                                               *)
(***************************************************************************)
\* TranscriptSegment.end
end(seg) == seg.start + seg.duration

\* TranscriptSegment.model_dump(): the computed field end is part of the dump
SegDump(seg) == [start |-> seg.start, duration |-> seg.duration,
                 text |-> seg.text, end |-> end(seg)]

\* TranscriptSegment(**d): the extra key end is ignored
SegLoad(d) == Seg(d.start, d.duration, d.text)

(***************************************************************************)
(* storage/sqlite.py: SQLiteVideoRepository over the table `store`.        *)
(***************************************************************************)
exists(st, video_id) == video_id \in DOMAIN st

\* INSERT OR REPLACE: the row given replaces the row held, added_at included
save_replaces(st, video) ==
    LET row == [video_id   |-> video.video_id,
                title      |-> video.title,
                channel    |-> video.channel,
                chapters   |-> video.chapters,
                transcript |-> [i \in 1..Len(video.transcript) |->
                                    SegDump(video.transcript[i])],
                tags       |-> video.tags,
                added_at   |-> video.added_at]
    IN [x \in DOMAIN st \cup {video.video_id} |->
            IF x = video.video_id THEN row ELSE st[x]]

\* INSERT ... ON CONFLICT(video_id) DO UPDATE SET every column but added_at
save(st, video) ==
    LET row == [video_id   |-> video.video_id,
                title      |-> video.title,
                channel    |-> video.channel,
                chapters   |-> video.chapters,
                transcript |-> [i \in 1..Len(video.transcript) |->
                                    SegDump(video.transcript[i])],
                tags       |-> video.tags,
                added_at   |-> IF video.video_id \in DOMAIN st
                               THEN st[video.video_id].added_at
                               ELSE video.added_at]
    IN [x \in DOMAIN st \cup {video.video_id} |->
            IF x = video.video_id THEN row ELSE st[x]]

\* a DELETE that is not committed
delete_uncommitted(st, video_id) == st

\* DELETE FROM videos WHERE video_id = ?  (no-op when absent)
delete(st, video_id) == [x \in DOMAIN st \ {video_id} |-> st[x]]

_row_to_video(row, include_transcript) ==
    [video_id   |-> row.video_id,
     title      |-> row.title,
     channel    |-> row.channel,
     chapters   |-> IF include_transcript THEN row.chapters ELSE << >>,
     transcript |-> IF include_transcript
                    THEN [i \in 1..Len(row.transcript) |-> SegLoad(row.transcript[i])]
                    ELSE << >>,
     tags       |-> row.tags,
     added_at   |-> row.added_at]

\* get: None is the empty sequence, a video v is <<v>>
get(st, video_id) ==
    IF video_id \in DOMAIN st THEN << _row_to_video(st[video_id], TRUE) >> ELSE << >>

\* SELECT * FROM videos ORDER BY added_at (ascending)
list_all_ascending(st) ==
    IF DOMAIN st = {} THEN << >>
    ELSE LET n == Cardinality(DOMAIN st)
             ordered == CHOOSE f \in [1..n -> DOMAIN st] :
                            /\ \A i, j \in 1..n : i # j => f[i] # f[j]
                            /\ \A i, j \in 1..n :
                                   i < j => st[f[i]].added_at <= st[f[j]].added_at
         IN [i \in 1..n |-> _row_to_video(st[ordered[i]], FALSE)]

\* list_all deserializing the transcript and the chapters of every row
list_all_full(st) ==
    IF DOMAIN st = {} THEN << >>
    ELSE LET n == Cardinality(DOMAIN st)
             ordered == CHOOSE f \in [1..n -> DOMAIN st] :
                            /\ \A i, j \in 1..n : i # j => f[i] # f[j]
                            /\ \A i, j \in 1..n :
                                   i < j => st[f[i]].added_at >= st[f[j]].added_at
         IN [i \in 1..n |-> _row_to_video(st[ordered[i]], TRUE)]

\* SELECT * FROM videos ORDER BY added_at DESC
list_all(st) ==
    IF DOMAIN st = {} THEN << >>
    ELSE LET n == Cardinality(DOMAIN st)
             ordered == CHOOSE f \in [1..n -> DOMAIN st] :
                            /\ \A i, j \in 1..n : i # j => f[i] # f[j]
                            /\ \A i, j \in 1..n :
                                   i < j => st[f[i]].added_at >= st[f[j]].added_at
         IN [i \in 1..n |-> _row_to_video(st[ordered[i]], FALSE)]

(***************************************************************************)
(* ingestion/youtube.py                                                    *)
(***************************************************************************)
\* the characters of [\w-] the model uses
IdChars == DecimalChars \cup
           {"a", "b", "c", "d", "g", "w", "Q", "W", "X", "-", "_"}
IdLen == 11

\* _URL_PATTERNS: the text each pattern requires before the identifier
UrlPatterns == {"youtube.com/watch?v=", "youtu.be/", "youtube.com/embed/",
                "youtube.com/v/"}

\* parse_video_id: <<id>>, or << >> when it raises ExtractionError
parse_video_id(url) ==
    LET rest == Tail(url)
    IN IF /\ Head(url) \in UrlPatterns
          /\ Len(rest) >= IdLen
          /\ \A i \in 1..IdLen : rest[i] \in IdChars
       THEN << SubSeq(rest, 1, IdLen) >>
       \* fallback: the query parameter v, when it has exactly 11 characters
       ELSE IF Head(url) = "example.com/?v=" /\ Len(rest) = IdLen
       THEN << rest >>
       ELSE << >>

\* YouTubeExtractor.extract: the Video built from the platform's data, its
\* added_at read from the clock
extract(video_id, transcript, now) ==
    [video_id   |-> video_id,
     title      |-> Catalogue(video_id).title,
     channel    |-> Catalogue(video_id).channel,
     chapters   |-> Catalogue(video_id).chapters,
     transcript |-> transcript,
     tags       |-> << >>,
     added_at   |-> now]

(***************************************************************************)
(* storage/vectorstore.py: ChromaVectorStore over the collection `index`.  *)
(***************************************************************************)
\* What the engine does in one call of the vector store: whether
\* collection.delete returns or raises, the batch at which collection.add
\* raises (0: none), and what collection.add does with an id it already
\* holds (older engines raise, newer ones skip the entry).
Engines == [delete_ok : BOOLEAN, add_fail_at : 0..2, dup : {"raise", "skip"}]

owned(idx, video_id) == {f \in idx : f.video_id = video_id}

\* The engine succeeding: collection.add returns, and collection.delete
\* does what it is asked; with nothing to delete it returns or raises (the
\* case the except clause of delete_video is written for).
EngineSucceeds(e, idx, video_id) ==
    /\ e.add_fail_at = 0
    /\ e.delete_ok \/ owned(idx, video_id) = {}

\* one entry of documents / metadatas / ids for segment i (0-based)
Fragment(video_id, i, seg) ==
    [id            |-> video_id \o <<"_">> \o str(i),
     document      |-> strip(seg.text),
     video_id      |-> video_id,
     start         |-> seg.start,
     end           |-> end(seg),
     segment_index |-> i]

\* the entries index_video builds: segments whose text is blank are skipped
Entries(video_id, segments) ==
    LET all == [i \in 1..Len(segments) |-> Fragment(video_id, i - 1, segments[i])]
    IN SelectSeq(all, LAMBDA f : f.document # << >>)

\* collection.delete with the filter on the entry's id instead of its video_id
collection_delete_by_id(idx, video_id) == {f \in idx : f.id # video_id}

\* collection.delete(where={"video_id": video_id})
collection_delete(idx, video_id) == {f \in idx : f.video_id # video_id}

\* delete_video: an exception of the engine is swallowed
delete_video(idx, video_id, engine) ==
    IF engine.delete_ok
    THEN [index |-> collection_delete(idx, video_id), err |-> ""]
    ELSE [index |-> idx, err |-> ""]

\* collection.add(batch)
collection_add(idx, batch, engine) ==
    LET held == {i \in 1..Len(batch) : \E g \in idx : g.id = batch[i].id}
    IN IF held # {} /\ engine.dup = "raise"
       THEN [index |-> idx, err |-> "DuplicateIDError"]
       ELSE [index |-> idx \cup {batch[i] : i \in (1..Len(batch)) \ held},
             err   |-> ""]

Min(a, b) == IF a < b THEN a ELSE b

\* the ids of the entries of a batch
BatchIds(batch) == [i \in 1..Len(batch) |-> batch[i].id]

\* the ids of a batch the collection holds when the batch is given to it
Collisions(idx, batch) ==
    SelectSeq(BatchIds(batch), LAMBDA k : \E g \in idx : g.id = k)

\* the loop stopping before a last batch that is not full
RECURSIVE add_batches_drops_remainder(_, _, _, _, _)
add_batches_drops_remainder(idx, docs, batch_start, indexed, engine) ==
    IF batch_start + BATCH_SIZE > Len(docs)
    THEN [index |-> idx, ret |-> indexed, err |-> "", batches |-> << >>,
          collisions |-> << >>]
    ELSE LET batch == SubSeq(docs, batch_start + 1, batch_start + BATCH_SIZE)
             r == collection_add(idx, batch, engine)
             rest == add_batches_drops_remainder(r.index, docs, batch_start + BATCH_SIZE,
                                                 indexed + Len(batch), engine)
         IN IF engine.add_fail_at = (batch_start \div BATCH_SIZE) + 1
            THEN [index |-> idx, ret |-> indexed, err |-> "ChromaError", batches |-> << >>,
                  collisions |-> << >>]
            ELSE IF r.err # ""
            THEN [index |-> idx, ret |-> indexed, err |-> r.err, batches |-> << >>,
                  collisions |-> Collisions(idx, batch)]
            ELSE [rest EXCEPT !.batches = <<BatchIds(batch)>> \o @,
                              !.collisions = Collisions(idx, batch) \o @]

\* the loop over range(0, len(documents), _BATCH_SIZE): the collection, the
\* number indexed, the exception raised and the batches the engine took
RECURSIVE add_batches(_, _, _, _, _)
add_batches(idx, docs, batch_start, indexed, engine) ==
    IF batch_start >= Len(docs)
    THEN [index |-> idx, ret |-> indexed, err |-> "", batches |-> << >>,
          collisions |-> << >>]
    ELSE LET batch == SubSeq(docs, batch_start + 1,
                             Min(batch_start + BATCH_SIZE, Len(docs)))
             r == collection_add(idx, batch, engine)
             rest == add_batches(r.index, docs, batch_start + BATCH_SIZE,
                                 indexed + Len(batch), engine)
         IN IF engine.add_fail_at = (batch_start \div BATCH_SIZE) + 1
            THEN [index |-> idx, ret |-> indexed, err |-> "ChromaError", batches |-> << >>,
                  collisions |-> << >>]
            ELSE IF r.err # ""
            THEN [index |-> idx, ret |-> indexed, err |-> r.err, batches |-> << >>,
                  collisions |-> Collisions(idx, batch)]
            ELSE [rest EXCEPT !.batches = <<BatchIds(batch)>> \o @,
                              !.collisions = Collisions(idx, batch) \o @]

\* index_video without the delete_video before the insertion
index_video_merges(idx, video_id, segments, engine) ==
    IF segments = << >>
    THEN [index |-> idx, ret |-> 0, err |-> "", batches |-> << >>,
          collisions |-> << >>]
    ELSE add_batches(idx, Entries(video_id, segments), 0, 0, engine)

\* index_video without the early return on an empty list
index_video_purges_on_empty(idx, video_id, segments, engine) ==
    LET d == delete_video(idx, video_id, engine)
    IN add_batches(d.index, Entries(video_id, segments), 0, 0, engine)

\* index_video: the collection after the call, the value returned and the
\* exception raised ("" when it returns)
index_video(idx, video_id, segments, engine) ==
    IF segments = << >>
    THEN [index |-> idx, ret |-> 0, err |-> "", batches |-> << >>,
          collisions |-> << >>]
    ELSE LET d == delete_video(idx, video_id, engine)
         IN IF d.err # ""
            THEN [index |-> d.index, ret |-> 0, err |-> d.err, batches |-> << >>,
                  collisions |-> << >>]
            ELSE add_batches(d.index, Entries(video_id, segments), 0, 0, engine)

\* The cosine distance of two texts is the engine's; the model fixes one
\* function of the two texts: the characters of the query the document lacks.
Distance(query, document) ==
    Cardinality({i \in 1..Len(query) : ~ \E j \in 1..Len(document) : document[j] = query[i]})

\* the n nearest of a set of fragments, nearest first
RECURSIVE nearest(_, _, _)
nearest(fragments, query, n) ==
    IF n = 0 \/ fragments = {} THEN << >>
    ELSE LET f == CHOOSE x \in fragments : \A y \in fragments :
                      Distance(query, x.document) <= Distance(query, y.document)
         IN <<f>> \o nearest(fragments \ {f}, query, n - 1)

\* collection.query without the where filter
collection_query_unscoped(idx, query, video_id, limit) == nearest(idx, query, limit)

\* collection.query(query_texts=[query], n_results=limit, where=where)
collection_query(idx, query, video_id, limit) ==
    nearest(IF video_id # << >> THEN {f \in idx : f.video_id = video_id} ELSE idx,
            query, limit)

\* search: an empty video_id is no scope; tags are not looked at
search(idx, query, video_id, tags, limit) ==
    LET r == collection_query(idx, query, video_id, limit)
    IN [i \in 1..Len(r) |->
            [video_id |-> r[i].video_id,
             text     |-> r[i].document,
             start    |-> r[i].start,
             end      |-> r[i].end,
             score    |-> Distance(query, r[i].document)]]

(***************************************************************************)
(* service.py: McpTubeService.  Each method is an operator from the state  *)
(* before the call (st: the table, idx: the collection, vs: whether a      *)
(* vector store is configured) and what its collaborators do, to the state *)
(* after it, the exception raised (err, "" when it returns), the value     *)
(* returned and the calls it made, in order.                               *)
(***************************************************************************)
Outcome(st, idx, err, msg, videos, calls) ==
    [store |-> st, index |-> idx, err |-> err, msg |-> msg,
     videos |-> videos, calls |-> calls]

\* the same for a method that writes nothing
Answer(err, msg, videos, calls) ==
    [err |-> err, msg |-> msg, videos |-> videos, calls |-> calls]

\* What the classifier does in one call: LLMClient.available, whether
\* classify returns or raises LLMError, and the tags it returns
LLMs == { [available |-> FALSE, ok |-> FALSE, tags |-> << >>],
          [available |-> TRUE,  ok |-> FALSE, tags |-> << >>] }
        \cup [available : {TRUE}, ok : {TRUE}, tags : TagLists]

\* the lines 98-100 of add_video without the test of the transcript
add_video_index_always(st, idx, vs, video, engine, calls) ==
    IF vs
    THEN LET r == index_video(idx, video.video_id, video.transcript, engine)
         IN Outcome(st, r.index, r.err, << >>, << >>, calls \o <<"index_video">>)
    ELSE Outcome(st, idx, "", << >>, << >>, calls)

\* the lines 98-100 of add_video
add_video_index(st, idx, vs, video, engine, calls) ==
    IF vs /\ video.transcript # << >>
    THEN LET r == index_video(idx, video.video_id, video.transcript, engine)
         IN Outcome(st, r.index, r.err, << >>, << >>, calls \o <<"index_video">>)
    ELSE Outcome(st, idx, "", << >>, << >>, calls)

\* the auto-classification without the except clause
add_video_classify_strict(st, idx, video, llm, calls) ==
    IF llm.available
    THEN IF llm.ok
         THEN LET tagged == [video EXCEPT !.tags = llm.tags]
              IN Outcome(save(st, tagged), idx, "", << >>, <<tagged>>,
                         calls \o <<"classify", "save">>)
         ELSE Outcome(st, idx, "LLMError", << >>, << >>, calls \o <<"classify">>)
    ELSE Outcome(st, idx, "", << >>, <<video>>, calls)

\* the lines 103-109 of add_video: an LLMError is caught and logged
add_video_classify(st, idx, video, llm, calls) ==
    IF llm.available
    THEN IF llm.ok
         THEN LET tagged == [video EXCEPT !.tags = llm.tags]
              IN Outcome(save(st, tagged), idx, "", << >>, <<tagged>>,
                         calls \o <<"classify", "save">>)
         ELSE Outcome(st, idx, "", << >>, <<video>>, calls \o <<"classify">>)
    ELSE Outcome(st, idx, "", << >>, <<video>>, calls)

\* add_video without the check of exists(video_id)
add_video_unchecked(st, idx, vs, url, extracted, engine, llm) ==
    LET parsed == parse_video_id(url)
    IN IF parsed = << >>
       THEN Outcome(st, idx, "ExtractionError", << >>, << >>, <<"parse_video_id">>)
       ELSE IF extracted = << >>
       THEN Outcome(st, idx, "ExtractionError", << >>, << >>,
                    <<"parse_video_id", "extract">>)
       ELSE LET video == extracted[1]
                saved == save(st, video)
                ix == add_video_index(saved, idx, vs, video, engine,
                          <<"parse_video_id", "extract", "save">>)
            IN IF ix.err # "" THEN ix
               ELSE add_video_classify(saved, ix.index, video, llm, ix.calls)

add_video(st, idx, vs, url, extracted, engine, llm) ==
    LET parsed == parse_video_id(url)
    IN IF parsed = << >>
       THEN Outcome(st, idx, "ExtractionError", << >>, << >>, <<"parse_video_id">>)
       ELSE IF exists(st, parsed[1])
       THEN Outcome(st, idx, "VideoAlreadyExistsError", << >>, << >>,
                    <<"parse_video_id", "exists">>)
       ELSE IF extracted = << >>
       THEN Outcome(st, idx, "ExtractionError", << >>, << >>,
                    <<"parse_video_id", "exists", "extract">>)
       ELSE LET video == extracted[1]
                saved == save(st, video)
                ix == add_video_index(saved, idx, vs, video, engine,
                          <<"parse_video_id", "exists", "extract", "save">>)
            IN IF ix.err # "" THEN ix
               ELSE add_video_classify(saved, ix.index, video, llm, ix.calls)

get_info(st, video_id) ==
    LET video == get(st, video_id)
    IN IF video = << >>
       THEN Answer("VideoNotFoundError", <<"Video not found: ">> \o video_id,
                   << >>, <<"get">>)
       ELSE Answer("", << >>, video, <<"get">>)

\* remove_video without the purge of the index
remove_video_keeps_fragments(st, idx, vs, video_id, engine) ==
    IF ~ exists(st, video_id)
    THEN Outcome(st, idx, "VideoNotFoundError", <<"Video not found: ">> \o video_id,
                 << >>, <<"exists">>)
    ELSE Outcome(delete(st, video_id), idx, "", << >>, << >>, <<"exists", "delete">>)

\* remove_video purging the index before it looks the video up
remove_video_purges_first(st, idx, vs, video_id, engine) ==
    LET d == IF vs THEN delete_video(idx, video_id, engine) ELSE [index |-> idx, err |-> ""]
        made == IF vs THEN <<"delete_video", "exists">> ELSE <<"exists">>
    IN IF ~ exists(st, video_id)
       THEN Outcome(st, d.index, "VideoNotFoundError", <<"Video not found: ">> \o video_id,
                    << >>, made)
       ELSE Outcome(delete(st, video_id), d.index, "", << >>, << >>, made \o <<"delete">>)

\* remove_video purging the index first and deleting the record only when
\* the purge went through
remove_video_purge_guards_delete(st, idx, vs, video_id, engine) ==
    IF ~ exists(st, video_id)
    THEN Outcome(st, idx, "VideoNotFoundError", <<"Video not found: ">> \o video_id,
                 << >>, <<"exists">>)
    ELSE IF vs
    THEN LET d == delete_video(idx, video_id, engine)
         IN IF owned(d.index, video_id) # {}
            THEN Outcome(st, d.index, "", << >>, << >>, <<"exists", "delete_video">>)
            ELSE Outcome(delete(st, video_id), d.index, "", << >>, << >>,
                         <<"exists", "delete_video", "delete">>)
    ELSE Outcome(delete(st, video_id), idx, "", << >>, << >>, <<"exists", "delete">>)

remove_video(st, idx, vs, video_id, engine) ==
    IF ~ exists(st, video_id)
    THEN Outcome(st, idx, "VideoNotFoundError", <<"Video not found: ">> \o video_id,
                 << >>, <<"exists">>)
    ELSE IF vs
    THEN LET d == delete_video(idx, video_id, engine)
         IN Outcome(delete(st, video_id), d.index, d.err,
                    << >>, << >>, <<"exists", "delete", "delete_video">>)
    ELSE Outcome(delete(st, video_id), idx, "", << >>, << >>, <<"exists", "delete">>)

\* classify_video adding the new tags to the ones held
classify_video_merges(st, idx, video_id, llm) ==
    LET info == get_info(st, video_id)
    IN IF info.err # ""
       THEN Outcome(st, idx, info.err, info.msg, << >>, info.calls)
       ELSE IF ~ llm.available
       THEN Outcome(st, idx, "RuntimeError", << >>, << >>, info.calls)
       ELSE IF ~ llm.ok
       THEN Outcome(st, idx, "LLMError", << >>, << >>, info.calls \o <<"classify">>)
       ELSE LET tagged == [info.videos[1] EXCEPT !.tags = @ \o llm.tags]
            IN Outcome(save(st, tagged), idx, "", << >>, <<tagged>>,
                       info.calls \o <<"classify", "save">>)

\* classify_video catching the LLMError as add_video does
classify_video_best_effort(st, idx, video_id, llm) ==
    LET info == get_info(st, video_id)
    IN IF info.err # ""
       THEN Outcome(st, idx, info.err, info.msg, << >>, info.calls)
       ELSE IF ~ llm.available
       THEN Outcome(st, idx, "RuntimeError", << >>, << >>, info.calls)
       ELSE IF ~ llm.ok
       THEN Outcome(st, idx, "", << >>, info.videos, info.calls \o <<"classify">>)
       ELSE LET tagged == [info.videos[1] EXCEPT !.tags = llm.tags]
            IN Outcome(save(st, tagged), idx, "", << >>, <<tagged>>,
                       info.calls \o <<"classify", "save">>)

classify_video(st, idx, video_id, llm) ==
    LET info == get_info(st, video_id)
    IN IF info.err # ""
       THEN Outcome(st, idx, info.err, info.msg, << >>, info.calls)
       ELSE IF ~ llm.available
       THEN Outcome(st, idx, "RuntimeError", << >>, << >>, info.calls)
       ELSE IF ~ llm.ok
       THEN Outcome(st, idx, "LLMError", << >>, << >>, info.calls \o <<"classify">>)
       ELSE LET tagged == [info.videos[1] EXCEPT !.tags = llm.tags]
            IN Outcome(save(st, tagged), idx, "", << >>, <<tagged>>,
                       info.calls \o <<"classify", "save">>)

\* McpTubeService.search returning nothing when no vector store is configured
service_search_lenient(idx, vs, query, video_id, tags, limit) ==
    IF ~ vs
    THEN [err |-> "", results |-> << >>]
    ELSE [err |-> "", results |-> search(idx, query, video_id, tags, limit)]

\* McpTubeService.search
service_search(idx, vs, query, video_id, tags, limit) ==
    IF ~ vs
    THEN [err |-> "RuntimeError", results |-> << >>]
    ELSE [err |-> "", results |-> search(idx, query, video_id, tags, limit)]

\* McpTubeService.list_videos
list_videos(st) == Answer("", << >>, list_all(st), <<"list_all">>)

\* what a call that may capture frames gives: the exception raised, the
\* fragments found, the timestamp given to extract_frame (-1: none), the calls
\* made and the exceptions the frame extractor raised
Framed(err, msg, results, at, calls, raised) ==
    [err |-> err, msg |-> msg, results |-> results, at |-> at,
     calls |-> calls, raised |-> raised]

\* FrameExtractor.extract_frame returns a path (frame_ok) or raises
\* FrameExtractionError
get_frame(st, video_id, timestamp, frame_ok) ==
    IF ~ exists(st, video_id)
    THEN Framed("VideoNotFoundError", <<"Video not found: ">> \o video_id,
                << >>, -1, <<"exists">>, << >>)
    ELSE IF frame_ok
    THEN Framed("", << >>, << >>, timestamp, <<"exists", "extract_frame">>, << >>)
    ELSE Framed("FrameExtractionError", << >>, << >>, timestamp,
                <<"exists", "extract_frame">>, <<"FrameExtractionError">>)

\* get_frame_by_query without the test of the results: the frame is taken
\* at 0 when nothing matches
get_frame_by_query_unchecked(st, idx, vs, video_id, query, frame_ok) ==
    IF ~ exists(st, video_id)
    THEN Framed("VideoNotFoundError", <<"Video not found: ">> \o video_id,
                << >>, -1, <<"exists">>, << >>)
    ELSE IF ~ vs
    THEN Framed("RuntimeError", << >>, << >>, -1, <<"exists">>, << >>)
    ELSE LET results == search(idx, query, video_id, << >>, 1)
             at == IF results = << >> THEN 0 ELSE results[1].start
         IN IF frame_ok
            THEN Framed("", << >>, results, at,
                        <<"exists", "search", "extract_frame">>, << >>)
            ELSE Framed("FrameExtractionError", << >>, << >>, at,
                        <<"exists", "search", "extract_frame">>,
                        <<"FrameExtractionError">>)

get_frame_by_query(st, idx, vs, video_id, query, frame_ok) ==
    IF ~ exists(st, video_id)
    THEN Framed("VideoNotFoundError", <<"Video not found: ">> \o video_id,
                << >>, -1, <<"exists">>, << >>)
    ELSE IF ~ vs
    THEN Framed("RuntimeError", << >>, << >>, -1, <<"exists">>, << >>)
    ELSE LET results == search(idx, query, video_id, << >>, 1)
         IN IF results = << >>
            THEN Framed("VideoNotFoundError",
                        <<"No transcript match for query: ">> \o query,
                        << >>, -1, <<"exists", "search">>, << >>)
            ELSE IF frame_ok
            THEN Framed("", << >>, results, results[1].start,
                        <<"exists", "search", "extract_frame">>, << >>)
            ELSE Framed("FrameExtractionError", << >>, << >>, results[1].start,
                        <<"exists", "search", "extract_frame">>,
                        <<"FrameExtractionError">>)

(***************************************************************************)
(* report.py: ReportBuilder, and the two report methods of the service.    *)
(***************************************************************************)
\* What the collaborators of a report do in one call: whether the service
\* was built with a ReportBuilder (an API key was set), whether the text
\* generation returns a report that parses or raises LLMError, the frames
\* the report selects, and whether extract_frame returns or raises
Generations ==
    [builder : BOOLEAN, llm_ok : BOOLEAN,
     frames : { << >>, << [video_id |-> V1, timestamp |-> 0] >>,
                << [video_id |-> << >>, timestamp |-> 5] >> },
     frame_ok : BOOLEAN]

\* what a report method gives: the exception raised, the fragments found,
\* the videos handed to the ReportBuilder, the number of frames captured,
\* the calls made and the exceptions its collaborators raised
Reported(err, msg, results, videos, captured, calls, raised) ==
    [err |-> err, msg |-> msg, results |-> results, videos |-> videos,
     captured |-> captured, calls |-> calls, raised |-> raised]

\* ReportBuilder._parse_report: a frame the response gives no video_id takes
\* default_video_id, "" when that is None
_parse_report(frames, default_video_id) ==
    [i \in 1..Len(frames) |->
        IF frames[i].video_id = << >>
        THEN [frames[i] EXCEPT !.video_id = default_video_id]
        ELSE frames[i]]

\* _extract_frames letting the first FrameExtractionError out
RECURSIVE _extract_frames_strict(_, _)
_extract_frames_strict(frames, frame_ok) ==
    IF frames = << >>
    THEN [err |-> "", captured |-> 0, calls |-> << >>, raised |-> << >>]
    ELSE LET rest == _extract_frames_strict(Tail(frames), frame_ok)
         IN IF Head(frames).video_id = << >> THEN rest
            ELSE IF ~ frame_ok
            THEN [err |-> "FrameExtractionError", captured |-> 0,
                  calls |-> <<"extract_frame">>, raised |-> <<"FrameExtractionError">>]
            ELSE [err      |-> rest.err,
                  captured |-> IF rest.err = "" THEN 1 + rest.captured ELSE 0,
                  calls    |-> <<"extract_frame">> \o rest.calls,
                  raised   |-> rest.raised]

\* ReportBuilder._extract_frames: a frame without video_id is skipped, a
\* FrameExtractionError is caught and logged
RECURSIVE _extract_frames(_, _)
_extract_frames(frames, frame_ok) ==
    IF frames = << >>
    THEN [err |-> "", captured |-> 0, calls |-> << >>, raised |-> << >>]
    ELSE LET rest == _extract_frames(Tail(frames), frame_ok)
         IN IF Head(frames).video_id = << >> THEN rest
            ELSE [err      |-> "",
                  captured |-> (IF frame_ok THEN 1 ELSE 0) + rest.captured,
                  calls    |-> <<"extract_frame">> \o rest.calls,
                  raised   |-> (IF frame_ok THEN << >> ELSE <<"FrameExtractionError">>)
                               \o rest.raised]

\* ReportBuilder.generate_single and generate_multi: _complete,
\* _parse_report, _extract_frames
generate(videos, results, default_video_id, gen, calls) ==
    IF ~ gen.llm_ok
    THEN Reported("LLMError", << >>, results, videos, 0,
                  calls \o <<"_complete">>, <<"LLMError">>)
    ELSE LET fr == _extract_frames(_parse_report(gen.frames, default_video_id),
                                   gen.frame_ok)
         IN Reported(fr.err, << >>, results, videos, fr.captured,
                     calls \o <<"_complete">> \o fr.calls, fr.raised)

\* McpTubeService.generate_report
generate_report(st, video_id, gen) ==
    IF ~ gen.builder
    THEN Reported("RuntimeError", << >>, << >>, << >>, 0, << >>, << >>)
    ELSE LET info == get_info(st, video_id)
         IN IF info.err # ""
            THEN Reported(info.err, info.msg, << >>, << >>, 0, info.calls, << >>)
            ELSE generate(info.videos, << >>, video_id, gen, info.calls)

\* list(dict.fromkeys(r.video_id for r in results))
RECURSIVE fromkeys(_, _)
fromkeys(results, seen) ==
    IF results = << >> THEN seen
    ELSE fromkeys(Tail(results),
                  IF \E i \in 1..Len(seen) : seen[i] = Head(results).video_id
                  THEN seen ELSE Append(seen, Head(results).video_id))

\* [self.get_info(vid) for vid in video_ids]: the first video not found
\* raises
RECURSIVE get_infos(_, _)
get_infos(st, video_ids) ==
    IF video_ids = << >> THEN Answer("", << >>, << >>, << >>)
    ELSE LET info == get_info(st, Head(video_ids))
             rest == get_infos(st, Tail(video_ids))
         IN IF info.err # "" THEN info
            ELSE Answer(rest.err, rest.msg,
                        IF rest.err = "" THEN info.videos \o rest.videos ELSE << >>,
                        info.calls \o rest.calls)

\* generate_report_from_query asking for the record of every result
generate_report_from_query_repeats(st, idx, vs, query, tags, gen) ==
    IF ~ gen.builder \/ ~ vs
    THEN Reported("RuntimeError", << >>, << >>, << >>, 0, << >>, << >>)
    ELSE LET results == search(idx, query, << >>, tags, 20)
             infos == get_infos(st, [i \in 1..Len(results) |-> results[i].video_id])
         IN IF results = << >>
            THEN Reported("VideoNotFoundError", <<"No matching content for: ">> \o query,
                          << >>, << >>, 0, <<"search">>, << >>)
            ELSE IF infos.err # ""
            THEN Reported(infos.err, infos.msg, results, << >>, 0,
                          <<"search">> \o infos.calls, << >>)
            ELSE generate(infos.videos, results, << >>, gen,
                          <<"search">> \o infos.calls)

\* McpTubeService.generate_report_from_query
generate_report_from_query(st, idx, vs, query, tags, gen) ==
    IF ~ gen.builder \/ ~ vs
    THEN Reported("RuntimeError", << >>, << >>, << >>, 0, << >>, << >>)
    ELSE LET results == search(idx, query, << >>, tags, 20)
             infos == get_infos(st, fromkeys(results, << >>))
         IN IF results = << >>
            THEN Reported("VideoNotFoundError", <<"No matching content for: ">> \o query,
                          << >>, << >>, 0, <<"search">>, << >>)
            ELSE IF infos.err # ""
            THEN Reported(infos.err, infos.msg, results, << >>, 0,
                          <<"search">> \o infos.calls, << >>)
            ELSE generate(infos.videos, results, << >>, gen,
                          <<"search">> \o infos.calls)

\* the text "\n".join(f"  {i+1}. {v.title}" for i, v in enumerate(matches))
RECURSIVE numbered(_, _)
numbered(matches, i) ==
    IF i > Len(matches) THEN << >>
    ELSE (IF i > 1 THEN <<"\n">> ELSE << >>)
         \o <<"  ">> \o str(i) \o <<". ">> \o matches[i].title
         \o numbered(matches, i + 1)

\* resolve_video with the numeric tier tried first
resolve_video_index_first(st, query) ==
    LET video == get(st, query)
        videos == list_all(st)
        idx == int(query) - 1
        q == lower(query)
        matches == SelectSeq(videos, LAMBDA v :
                       Contains(q, lower(v.title)) \/ Contains(q, lower(v.channel)))
    IN IF isdigit(query)
       THEN IF ~ IntParses(query)
            THEN Answer("ValueError", << >>, << >>, <<"get", "list_all">>)
            ELSE IF 0 <= idx /\ idx < Len(videos)
            THEN Answer("", << >>, get(st, videos[idx + 1].video_id),
                         <<"get", "list_all", "get">>)
            ELSE Answer("VideoNotFoundError",
                         <<"Index ">> \o query \o <<" out of range. Library has ">>
                         \o str(Len(videos)) \o <<" video(s).">>,
                         << >>, <<"get", "list_all">>)
       ELSE IF video # << >>
       THEN Answer("", << >>, video, <<"get">>)
       ELSE IF Len(matches) = 1
       THEN Answer("", << >>, get(st, matches[1].video_id),
                    <<"get", "list_all", "get">>)
       ELSE IF Len(matches) > 1
       THEN Answer("AmbiguousVideoError",
                    <<"Multiple videos match '">> \o query \o <<"':\n">>
                    \o numbered(matches, 1),
                    << >>, <<"get", "list_all">>)
       ELSE Answer("VideoNotFoundError", <<"No video matching: ">> \o query,
                    << >>, <<"get", "list_all">>)

\* resolve_video without the lower bound of the index: videos[-1] is the last
resolve_video_negative_index(st, query) ==
    LET video == get(st, query)
        videos == list_all(st)
        idx == int(query) - 1
        q == lower(query)
        matches == SelectSeq(videos, LAMBDA v :
                       Contains(q, lower(v.title)) \/ Contains(q, lower(v.channel)))
    IN \* Tier 1: exact video ID
       IF video # << >>
       THEN Answer("", << >>, video, <<"get">>)
       \* Tier 2: numeric index
       ELSE IF isdigit(query)
       THEN IF ~ IntParses(query)
            THEN Answer("ValueError", << >>, << >>, <<"get", "list_all">>)
            ELSE IF idx < Len(videos) /\ Len(videos) > 0
            THEN Answer("", << >>,
                         get(st, videos[IF idx < 0 THEN Len(videos) ELSE idx + 1].video_id),
                         <<"get", "list_all", "get">>)
            ELSE Answer("VideoNotFoundError",
                         <<"Index ">> \o query \o <<" out of range. Library has ">>
                         \o str(Len(videos)) \o <<" video(s).">>,
                         << >>, <<"get", "list_all">>)
       \* Tier 3: case-insensitive substring of title or channel
       ELSE IF Len(matches) = 1
       THEN Answer("", << >>, get(st, matches[1].video_id),
                    <<"get", "list_all", "get">>)
       ELSE IF Len(matches) > 1
       THEN Answer("AmbiguousVideoError",
                    <<"Multiple videos match '">> \o query \o <<"':\n">>
                    \o numbered(matches, 1),
                    << >>, <<"get", "list_all">>)
       ELSE Answer("VideoNotFoundError", <<"No video matching: ">> \o query,
                    << >>, <<"get", "list_all">>)

\* resolve_video with the substring tier tried before the numeric one
resolve_video_substring_first(st, query) ==
    LET video == get(st, query)
        videos == list_all(st)
        idx == int(query) - 1
        q == lower(query)
        matches == SelectSeq(videos, LAMBDA v :
                       Contains(q, lower(v.title)) \/ Contains(q, lower(v.channel)))
    IN \* Tier 1: exact video ID
       IF video # << >>
       THEN Answer("", << >>, video, <<"get">>)
       ELSE IF Len(matches) = 1
       THEN Answer("", << >>, get(st, matches[1].video_id),
                    <<"get", "list_all", "get">>)
       ELSE IF Len(matches) > 1
       THEN Answer("AmbiguousVideoError",
                    <<"Multiple videos match '">> \o query \o <<"':\n">>
                    \o numbered(matches, 1),
                    << >>, <<"get", "list_all">>)
       ELSE IF isdigit(query)
       THEN IF ~ IntParses(query)
            THEN Answer("ValueError", << >>, << >>, <<"get", "list_all">>)
            ELSE IF 0 <= idx /\ idx < Len(videos)
            THEN Answer("", << >>, get(st, videos[idx + 1].video_id),
                         <<"get", "list_all", "get">>)
            ELSE Answer("VideoNotFoundError",
                         <<"Index ">> \o query \o <<" out of range. Library has ">>
                         \o str(Len(videos)) \o <<" video(s).">>,
                         << >>, <<"get", "list_all">>)
       \* Tier 3: case-insensitive substring of title or channel
       ELSE IF Len(matches) = 1
       THEN Answer("", << >>, get(st, matches[1].video_id),
                    <<"get", "list_all", "get">>)
       ELSE IF Len(matches) > 1
       THEN Answer("AmbiguousVideoError",
                    <<"Multiple videos match '">> \o query \o <<"':\n">>
                    \o numbered(matches, 1),
                    << >>, <<"get", "list_all">>)
       ELSE Answer("VideoNotFoundError", <<"No video matching: ">> \o query,
                    << >>, <<"get", "list_all">>)

\* resolve_video matching the title alone
resolve_video_title_only(st, query) ==
    LET video == get(st, query)
        videos == list_all(st)
        idx == int(query) - 1
        q == lower(query)
        matches == SelectSeq(videos, LAMBDA v :
                       Contains(q, lower(v.title)))
    IN \* Tier 1: exact video ID
       IF video # << >>
       THEN Answer("", << >>, video, <<"get">>)
       \* Tier 2: numeric index
       ELSE IF isdigit(query)
       THEN IF ~ IntParses(query)
            THEN Answer("ValueError", << >>, << >>, <<"get", "list_all">>)
            ELSE IF 0 <= idx /\ idx < Len(videos)
            THEN Answer("", << >>, get(st, videos[idx + 1].video_id),
                         <<"get", "list_all", "get">>)
            ELSE Answer("VideoNotFoundError",
                         <<"Index ">> \o query \o <<" out of range. Library has ">>
                         \o str(Len(videos)) \o <<" video(s).">>,
                         << >>, <<"get", "list_all">>)
       \* Tier 3: case-insensitive substring of title or channel
       ELSE IF Len(matches) = 1
       THEN Answer("", << >>, get(st, matches[1].video_id),
                    <<"get", "list_all", "get">>)
       ELSE IF Len(matches) > 1
       THEN Answer("AmbiguousVideoError",
                    <<"Multiple videos match '">> \o query \o <<"':\n">>
                    \o numbered(matches, 1),
                    << >>, <<"get", "list_all">>)
       ELSE Answer("VideoNotFoundError", <<"No video matching: ">> \o query,
                    << >>, <<"get", "list_all">>)

resolve_video(st, query) ==
    LET video == get(st, query)
        videos == list_all(st)
        idx == int(query) - 1
        q == lower(query)
        matches == SelectSeq(videos, LAMBDA v :
                       Contains(q, lower(v.title)) \/ Contains(q, lower(v.channel)))
    IN \* Tier 1: exact video ID
       IF video # << >>
       THEN Answer("", << >>, video, <<"get">>)
       \* Tier 2: numeric index
       ELSE IF isdigit(query)
       THEN IF ~ IntParses(query)
            THEN Answer("ValueError", << >>, << >>, <<"get", "list_all">>)
            ELSE IF 0 <= idx /\ idx < Len(videos)
            THEN Answer("", << >>, get(st, videos[idx + 1].video_id),
                         <<"get", "list_all", "get">>)
            ELSE Answer("VideoNotFoundError",
                         <<"Index ">> \o query \o <<" out of range. Library has ">>
                         \o str(Len(videos)) \o <<" video(s).">>,
                         << >>, <<"get", "list_all">>)
       \* Tier 3: case-insensitive substring of title or channel
       ELSE IF Len(matches) = 1
       THEN Answer("", << >>, get(st, matches[1].video_id),
                    <<"get", "list_all", "get">>)
       ELSE IF Len(matches) > 1
       THEN Answer("AmbiguousVideoError",
                    <<"Multiple videos match '">> \o query \o <<"':\n">>
                    \o numbered(matches, 1),
                    << >>, <<"get", "list_all">>)
       ELSE Answer("VideoNotFoundError", <<"No video matching: ">> \o query,
                    << >>, <<"get", "list_all">>)

(***************************************************************************)
(* The state machine.                                                      *)
(***************************************************************************)
\* op, arg, scope: the method called and its arguments (segments: the list
\* given to index_video); video_id: the identifier the call is about;
\* after: the method called just before it, when that was a removal or a
\* call of the vector store about the same identifier and it returned; err, msg: the exception raised ("" when the
\* call returned) and its message; videos, results, n: the value returned;
\* held: the tags of the Video that get_info gave to classify_video; tags: the
\* tags given to search;
\* calls: the calls made on the collaborators, in order; raised: the
\* exceptions that frame capture and text generation raised during the call.
NoCall ==
    [op |-> "", arg |-> << >>, scope |-> << >>, segments |-> << >>,
     video_id |-> << >>, after |-> "", held |-> << >>, tags |-> << >>,
     err |-> "", msg |-> << >>,
     videos |-> << >>, results |-> << >>, n |-> 0, calls |-> << >>,
     raised |-> << >>, batches |-> << >>, collisions |-> << >>]

After(video_id) ==
    IF /\ last.op \in {"remove_video", "index_video", "delete_video"}
       /\ last.err = "" /\ last.video_id = video_id /\ video_id # << >>
    THEN last.op ELSE ""

\* the record of a call of the service
Called(op, arg, video_id, o) ==
    [NoCall EXCEPT !.op = op, !.arg = arg, !.video_id = video_id,
                   !.after = After(video_id),
                   !.err = o.err, !.msg = o.msg,
                   !.videos = o.videos, !.calls = o.calls]

\* what extract(url) does: raises ExtractionError (<< >>) or returns a
\* Video with one of the transcripts
Extractions == { << >> } \cup { <<t>> : t \in Transcripts }

\* collection.add meets an id it holds only after a delete that failed
EngineCases == {e \in Engines : e.delete_ok => e.dup = "skip"}
EngineCasesOk(video_id) ==
    {e \in EngineCases : e.dup = "skip" /\ EngineSucceeds(e, index, video_id)}

Init ==
    /\ store = << >>
    /\ index = {}
    /\ clock = 0
    /\ vectorstore \in BOOLEAN
    /\ last = NoCall

AddVideo(url, ex, engine, llm, horizon) ==
    LET parsed == parse_video_id(url)
        \* the extractor builds the Video, whose added_at reads the clock
        reads == parsed # << >> /\ ~ exists(store, parsed[1]) /\ ex # << >>
        extracted == IF reads THEN << extract(parsed[1], ex[1], clock + 1) >> ELSE << >>
        o == add_video(store, index, vectorstore, url, extracted, engine, llm)
    IN /\ reads => clock < horizon
       /\ clock' = IF reads THEN clock + 1 ELSE clock
       /\ store' = o.store
       /\ index' = o.index
       /\ last' = Called("add_video", url, IF parsed = << >> THEN << >> ELSE parsed[1], o)
       /\ UNCHANGED vectorstore

RemoveVideo(video_id, engine) ==
    LET o == remove_video(store, index, vectorstore, video_id, engine)
    IN /\ store' = o.store
       /\ index' = o.index
       /\ last' = Called("remove_video", video_id, video_id, o)
       /\ UNCHANGED <<clock, vectorstore>>

ClassifyVideo(video_id, llm) ==
    LET o == classify_video(store, index, video_id, llm)
    IN /\ store' = o.store
       /\ index' = o.index
       /\ last' = [Called("classify_video", video_id, video_id, o)
                    EXCEPT !.held = IF exists(store, video_id)
                                    THEN get_info(store, video_id).videos[1].tags
                                    ELSE << >>]
       /\ UNCHANGED <<clock, vectorstore>>

\* The outcomes of its collaborators that add_video(url) can tell apart:
\* the extractor is reached only with a new identifier, the index engine
\* only with a vector store and a transcript, the classifier only with a
\* video extracted.
NoEngine == [delete_ok |-> TRUE, add_fail_at |-> 0, dup |-> "skip"]
NoLLM == [available |-> FALSE, ok |-> FALSE, tags |-> << >>]

ExtractionsAt(url) ==
    LET parsed == parse_video_id(url)
    IN IF parsed = << >> \/ exists(store, parsed[1]) THEN { << >> } ELSE Extractions

EnginesAt(ex, engines) ==
    IF ex \in {<< >>, << << >> >>} \/ ~ vectorstore THEN {NoEngine} ELSE engines

LLMsAt(ex) == IF ex = << >> THEN {NoLLM} ELSE LLMs

\* the URLs of two videos
TwoUrls == { <<"youtube.com/watch?v=">> \o V1, <<"youtu.be/">> \o V1,
             <<"youtube.com/embed/">> \o V2, <<"example.com/">> \o V1 }
TwoIds == {V1, V2}

\* the service, the engine of the index failing or not
Next ==
    \/ \E url \in TwoUrls : \E ex \in ExtractionsAt(url) :
       \E engine \in EnginesAt(ex, EngineCases), llm \in LLMsAt(ex) :
           AddVideo(url, ex, engine, llm, MaxClock)
    \/ \E video_id \in TwoIds, delete_ok \in BOOLEAN :
           RemoveVideo(video_id, [NoEngine EXCEPT !.delete_ok = delete_ok])
    \/ \E video_id \in TwoIds, llm \in LLMs : ClassifyVideo(video_id, llm)

Spec == Init /\ [][Next]_vars

\* the service, every call of the index engine succeeding
NextEngineOk ==
    \/ \E url \in TwoUrls : \E ex \in ExtractionsAt(url) :
       \E engine \in EnginesAt(ex, EngineCasesOk(Tail(url))), llm \in LLMsAt(ex) :
           AddVideo(url, ex, engine, llm, MaxClock)
    \/ \E video_id \in TwoIds : \E engine \in EngineCasesOk(video_id) :
           RemoveVideo(video_id, engine)
    \/ \E video_id \in TwoIds, llm \in LLMs : ClassifyVideo(video_id, llm)

SpecEngineOk == Init /\ [][NextEngineOk]_vars

ResolveVideo(query) ==
    /\ last' = Called("resolve_video", query, << >>, resolve_video(store, query))
    /\ UNCHANGED <<store, index, clock, vectorstore>>

\* one URL for each of the three videos
LibraryUrls == { <<"youtube.com/watch?v=">> \o V1, <<"youtube.com/embed/">> \o V2,
                 <<"youtube.com/v/">> \o V3 }

\* the library of three videos and the resolver: no classifier, the index
\* engine succeeding, one transcript
NextLibrary ==
    \/ \E url \in LibraryUrls :
       \E ex \in ExtractionsAt(url) \cap { << >>, << <<S1, S2>> >> } :
           AddVideo(url, ex, NoEngine, NoLLM, MaxLibrary)
    \/ \E video_id \in VideoIds :
           RemoveVideo(video_id, NoEngine)
    \/ \E query \in ResolveQueries : ResolveVideo(query)

SpecLibrary == Init /\ [][NextLibrary]_vars

(***************************************************************************)
(* The vector store called directly, the engine failing or not.            *)
(***************************************************************************)
IndexVideo(video_id, segments, engine) ==
    LET r == index_video(index, video_id, segments, engine)
    IN /\ index' = r.index
       /\ last' = [NoCall EXCEPT !.op = "index_video", !.arg = video_id,
                                 !.segments = segments, !.video_id = video_id,
                                 !.after = After(video_id),
                                 !.err = r.err, !.n = r.ret,
                                 !.batches = r.batches,
                                 !.collisions = r.collisions]
       /\ UNCHANGED <<store, clock, vectorstore>>

DeleteVideo(video_id, engine) ==
    LET d == delete_video(index, video_id, engine)
    IN /\ index' = d.index
       /\ last' = [NoCall EXCEPT !.op = "delete_video", !.arg = video_id,
                                 !.video_id = video_id, !.after = After(video_id),
                                 !.err = d.err]
       /\ UNCHANGED <<store, clock, vectorstore>>

SearchIndex(query, video_id, limit) ==
    /\ last' = [NoCall EXCEPT !.op = "search", !.arg = query, !.scope = video_id,
                              !.video_id = video_id, !.after = After(video_id),
                              !.n = limit,
                              !.results = search(index, query, video_id, << >>, limit)]
    /\ UNCHANGED <<store, index, clock, vectorstore>>

InitIndex ==
    /\ store = << >>
    /\ index = {}
    /\ clock = 0
    /\ vectorstore = TRUE
    /\ last = NoCall

NextIndex ==
    \/ \E video_id \in TwoIds, segments \in SegmentLists :
       \E engine \in {e \in EngineCases : e.add_fail_at = 0} :
           IndexVideo(video_id, segments, engine)
    \/ \E video_id \in TwoIds, delete_ok \in BOOLEAN :
           DeleteVideo(video_id, [NoEngine EXCEPT !.delete_ok = delete_ok])
    \/ \E query \in SearchQueries, video_id \in TwoIds \cup {<< >>}, limit \in {1, 10} :
           SearchIndex(query, video_id, limit)

SpecIndex == InitIndex /\ [][NextIndex]_vars

\* the vector store called directly, every call of the engine succeeding
NextIndexOk ==
    \/ \E video_id \in TwoIds, segments \in SegmentLists :
       \E engine \in EngineCasesOk(video_id) : IndexVideo(video_id, segments, engine)
    \/ \E video_id \in TwoIds : \E engine \in EngineCasesOk(video_id) :
           DeleteVideo(video_id, engine)
    \/ \E query \in SearchQueries, video_id \in TwoIds \cup {<< >>}, limit \in {1, 10} :
           SearchIndex(query, video_id, limit)

SpecIndexOk == InitIndex /\ [][NextIndexOk]_vars

(***************************************************************************)
(* The repository called directly.                                         *)
(***************************************************************************)
\* titles and tags a caller gives a Video before it saves it
Retitled == { <<"U", "p">> }
\* a Video built now (added_at reads the clock), or the one get returns,
\* with another title or other tags
Built(video_id, now) == extract(video_id, <<S1>>, now)
Edited(video, title, tags) ==
    [video EXCEPT !.title = IF title = << >> THEN @ ELSE title, !.tags = tags]

RepoSave(video, reads) ==
    /\ reads => clock < MaxSaves
    /\ clock' = IF reads THEN clock + 1 ELSE clock
    /\ store' = save(store, video)
    /\ last' = [NoCall EXCEPT !.op = "save", !.arg = video.video_id,
                              !.video_id = video.video_id, !.videos = <<video>>]
    /\ UNCHANGED <<index, vectorstore>>

RepoDelete(video_id) ==
    /\ store' = delete(store, video_id)
    /\ last' = [NoCall EXCEPT !.op = "delete", !.arg = video_id,
                              !.video_id = video_id]
    /\ UNCHANGED <<index, clock, vectorstore>>

RepoListAll ==
    /\ last' = [NoCall EXCEPT !.op = "list_all", !.videos = list_all(store)]
    /\ UNCHANGED <<store, index, clock, vectorstore>>

RepoGet(video_id) ==
    /\ last' = [NoCall EXCEPT !.op = "get", !.arg = video_id,
                              !.video_id = video_id, !.videos = get(store, video_id)]
    /\ UNCHANGED <<store, index, clock, vectorstore>>

NextStore ==
    \/ \E video_id \in TwoIds, title \in Retitled \cup {<< >>},
          tags \in {<< >>, <<"AI">>} :
           RepoSave(Edited(Built(video_id, clock + 1), title, tags), TRUE)
    \/ \E video_id \in DOMAIN store, title \in Retitled \cup {<< >>},
          tags \in {<< >>, <<"AI">>} :
           RepoSave(Edited(get(store, video_id)[1], title, tags), FALSE)
    \/ \E video_id \in TwoIds : RepoDelete(video_id)
    \/ RepoListAll
    \/ \E video_id \in TwoIds : RepoGet(video_id)

SpecStore == Init /\ [][NextStore]_vars

(***************************************************************************)
(* The search of the service, as server.search_library calls it.           *)
(***************************************************************************)
\* tag lists given to search ("DB" is a tag no video holds)
SearchTags == { << >>, <<"ML">>, <<"DB", "AI">> }

Search(query, video_id, tags, limit) ==
    LET r == service_search(index, vectorstore, query, video_id, tags, limit)
    IN /\ last' = [NoCall EXCEPT !.op = "McpTubeService.search", !.arg = query,
                                 !.scope = video_id, !.video_id = video_id,
                                 !.tags = tags, !.n = limit,
                                 !.err = r.err, !.results = r.results]
       /\ UNCHANGED <<store, index, clock, vectorstore>>

\* two videos added, classified or not, and searched; the engine succeeding
NextSearch ==
    \/ \E url \in { <<"youtube.com/watch?v=">> \o V1, <<"youtube.com/embed/">> \o V2 } :
       \E ex \in ExtractionsAt(url) \cap { << >>, << <<S1, S2>> >> } :
       \E llm \in LLMsAt(ex) :
           AddVideo(url, ex, NoEngine, llm, MaxClock)
    \/ \E video_id \in TwoIds : RemoveVideo(video_id, NoEngine)
    \/ \E query \in SearchQueries, video_id \in TwoIds \cup {<< >>},
          tags \in SearchTags, limit \in {1, 10} :
           Search(query, video_id, tags, limit)

SpecSearch == Init /\ [][NextSearch]_vars

(***************************************************************************)
(* The frames, the reports and the queries of the service.                 *)
(***************************************************************************)
\* the record of a call that may capture frames
FramedCall(op, arg, video_id, r) ==
    [NoCall EXCEPT !.op = op, !.arg = arg, !.scope = video_id,
                   !.video_id = video_id, !.err = r.err, !.msg = r.msg,
                   !.results = r.results, !.n = r.at, !.calls = r.calls,
                   !.raised = r.raised]

GetFrame(video_id, timestamp, frame_ok) ==
    /\ last' = FramedCall("get_frame", << >>, video_id,
                          get_frame(store, video_id, timestamp, frame_ok))
    /\ UNCHANGED <<store, index, clock, vectorstore>>

GetFrameByQuery(video_id, query, frame_ok) ==
    /\ last' = FramedCall("get_frame_by_query", query, video_id,
                          get_frame_by_query(store, index, vectorstore, video_id,
                                             query, frame_ok))
    /\ UNCHANGED <<store, index, clock, vectorstore>>

\* the record of a call of a report method
ReportedCall(op, arg, video_id, tags, r) ==
    [NoCall EXCEPT !.op = op, !.arg = arg, !.video_id = video_id, !.tags = tags,
                   !.err = r.err, !.msg = r.msg, !.results = r.results,
                   !.videos = r.videos, !.n = r.captured, !.calls = r.calls,
                   !.raised = r.raised]

GenerateReport(video_id, gen) ==
    /\ last' = ReportedCall("generate_report", << >>, video_id, << >>,
                            generate_report(store, video_id, gen))
    /\ UNCHANGED <<store, index, clock, vectorstore>>

GenerateReportFromQuery(query, tags, gen) ==
    /\ last' = ReportedCall("generate_report_from_query", query, << >>, tags,
                            generate_report_from_query(store, index, vectorstore,
                                                       query, tags, gen))
    /\ UNCHANGED <<store, index, clock, vectorstore>>

\* the outcomes of its collaborators that a report can tell apart
NoGeneration == [builder |-> FALSE, llm_ok |-> FALSE, frames |-> << >>, frame_ok |-> FALSE]
GenerationCases ==
    {NoGeneration} \cup
    {g \in Generations :
        /\ g.builder
        /\ ~ g.llm_ok => (g.frames = << >> /\ ~ g.frame_ok)
        /\ g.frames = << >> => ~ g.frame_ok}

\* list_videos saving back the metadata-only videos it lists
RECURSIVE save_all(_, _)
save_all(st, videos) ==
    IF videos = << >> THEN st ELSE save_all(save(st, Head(videos)), Tail(videos))

ListVideosSavesBack ==
    LET o == list_videos(store)
    IN /\ last' = Called("list_videos", << >>, << >>, o)
       /\ store' = save_all(store, o.videos)
       /\ UNCHANGED <<index, clock, vectorstore>>

ListVideos ==
    /\ last' = Called("list_videos", << >>, << >>, list_videos(store))
    /\ UNCHANGED <<store, index, clock, vectorstore>>

GetInfo(video_id) ==
    /\ last' = Called("get_info", video_id, video_id, get_info(store, video_id))
    /\ UNCHANGED <<store, index, clock, vectorstore>>

\* queries given to resolve_video here: an identifier, two positions, a
\* piece of a title
QueryResolves == { V1, <<"1">>, <<"4">>, <<"d", "e", "e", "p">> }

\* a classifier absent, failing, or answering one tag
QueryLLMs == { NoLLM, [available |-> TRUE, ok |-> FALSE, tags |-> << >>],
               [available |-> TRUE, ok |-> TRUE, tags |-> <<"AI">>] }

\* two videos, with a transcript or none, classified or not; the engine of
\* the index succeeding
QueryUrls == { <<"youtube.com/watch?v=">> \o V1, <<"youtube.com/embed/">> \o V2 }

NextQueries ==
    \/ \E url \in QueryUrls :
       \E ex \in ExtractionsAt(url) \cap { << >>, << << >> >>, << <<S1, S2>> >> } :
       \E llm \in LLMsAt(ex) \cap QueryLLMs :
           AddVideo(url, ex, NoEngine, llm, MaxClock)
    \/ \E video_id \in TwoIds : RemoveVideo(video_id, NoEngine)
    \/ \E video_id \in TwoIds, llm \in QueryLLMs : ClassifyVideo(video_id, llm)
    \/ \E video_id \in TwoIds, timestamp \in {0, 5}, frame_ok \in BOOLEAN :
           GetFrame(video_id, timestamp, frame_ok)
    \/ \E video_id \in TwoIds, query \in SearchQueries, frame_ok \in BOOLEAN :
           GetFrameByQuery(video_id, query, frame_ok)
    \/ \E video_id \in TwoIds, gen \in GenerationCases :
           GenerateReport(video_id, gen)
    \/ \E query \in SearchQueries, gen \in GenerationCases :
           GenerateReportFromQuery(query, << >>, gen)
    \/ ListVideos
    \/ \E video_id \in TwoIds : GetInfo(video_id)
    \/ \E query \in SearchQueries, video_id \in {<< >>, V1}, tags \in {<< >>, <<"AI">>} :
           Search(query, video_id, tags, 10)
    \/ \E query \in QueryResolves : ResolveVideo(query)

SpecQueries == Init /\ [][NextQueries]_vars

(***************************************************************************)
(* The claims.                                                             *)
(***************************************************************************)
Made(calls, name) == \E i \in 1..Len(calls) : calls[i] = name

C2_RemoveAtomic ==
    (last.op = "remove_video" /\ Made(last.calls, "delete"))
        => ~ (last.arg \notin DOMAIN store /\ owned(index, last.arg) # {})

\* C3: add_video of a URL whose identifier is stored raises
\* VideoAlreadyExistsError, does not call the extractor and leaves the store
\* and the index as they were.
C3_DuplicateRejected ==
    [][ (/\ last'.op = "add_video"
         /\ parse_video_id(last'.arg) # << >>
         /\ parse_video_id(last'.arg)[1] \in DOMAIN store)
        => /\ last'.err = "VideoAlreadyExistsError"
           /\ ~ Made(last'.calls, "extract")
           /\ store' = store
           /\ index' = index ]_vars

\* a duplicate was rejected, the stored video being indexed and tagged
C3_Witness ==
    /\ last.op = "add_video" /\ last.err = "VideoAlreadyExistsError"
    /\ owned(index, last.video_id) # {}
    /\ store[last.video_id].tags # << >>

\* the fragments a segment list leaves: one for each segment whose text is
\* not blank, carrying its position, its stripped text, its start and end
IsOf(f, video_id, segments) ==
    \E i \in 1..Len(segments) :
        /\ f.video_id = video_id
        /\ f.segment_index = i - 1
        /\ f.document = strip(segments[i].text)
        /\ f.start = segments[i].start
        /\ f.end = segments[i].start + segments[i].duration
NotBlank(segments) == {i \in 1..Len(segments) : strip(segments[i].text) # << >>}

\* C4, as stated: index(id, S) then index(id, S') leaves exactly len(S')
\* fragments of id, each of S'.
C4_AsStated ==
    (last.op = "index_video" /\ last.after = "index_video" /\ last.err = "")
        => /\ Cardinality(owned(index, last.arg)) = Len(last.segments)
           /\ \A f \in owned(index, last.arg) : IsOf(f, last.arg, last.segments)

\* C4, amended: index(id, S) then index(id, S') with S' not empty, the
\* engine succeeding, leaves one fragment of id for each segment of S' whose
\* text is not blank, and no other; it returns their number.
C4_IndexReplaces ==
    (/\ last.op = "index_video" /\ last.after = "index_video" /\ last.err = ""
     /\ last.segments # << >>)
        => /\ Cardinality(owned(index, last.arg)) = Cardinality(NotBlank(last.segments))
           /\ \A f \in owned(index, last.arg) : IsOf(f, last.arg, last.segments)
           /\ last.n = Cardinality(NotBlank(last.segments))

\* a second index_video of the same identifier, one segment of three blank
C4_Witness ==
    /\ last.op = "index_video" /\ last.after = "index_video" /\ last.err = ""
    /\ last.segments = <<S1, SBlank, SPad>>
    /\ Cardinality(owned(index, last.arg)) = 2

\* C5: index_video(id, []) returns 0 and leaves the index as it was.
C5_EmptyIsNoOp ==
    [][ (last'.op = "index_video" /\ last'.segments = << >>)
        => /\ last'.err = "" /\ last'.n = 0
           /\ index' = index ]_vars

\* index_video(id, []) while id owns fragments
C5_Witness ==
    /\ last.op = "index_video" /\ last.segments = << >>
    /\ owned(index, last.arg) # {}

\* C6: the engine succeeding, a search scoped to id right after
\* delete_video(id) returns nothing; delete_video(id) with no fragment of id
\* raises nothing and leaves the index as it was.
C6_DeleteThenSearch ==
    [][ /\ (last'.op = "search" /\ last'.after = "delete_video")
            => last'.results = << >>
        /\ (last'.op = "delete_video" /\ owned(index, last'.arg) = {})
            => (last'.err = "" /\ index' = index) ]_vars

\* a search scoped to the identifier just deleted, the index not empty
C6_Witness ==
    /\ last.op = "search" /\ last.after = "delete_video"
    /\ last.scope \in TwoIds
    /\ index # {}

\* C7: the engine succeeding, add_video right after remove_video of the
\* same identifier is not rejected as a duplicate; once the video is
\* extracted the call returns, the store holds the video and the index (when
\* configured) holds the fragments of its transcript and no other of its.
C7_AddRemoveAdd ==
    (last.op = "add_video" /\ last.after = "remove_video")
        => /\ last.err # "VideoAlreadyExistsError"
           /\ Made(last.calls, "extract")
           /\ Made(last.calls, "save") =>
                 /\ last.err = ""
                 /\ last.video_id \in DOMAIN store
                 /\ vectorstore =>
                       LET t == get(store, last.video_id)[1].transcript
                       IN /\ \A f \in owned(index, last.video_id) : IsOf(f, last.video_id, t)
                          /\ Cardinality(owned(index, last.video_id)) = Len(t)

\* a video added again right after its removal, its transcript indexed
C7_Witness ==
    /\ last.op = "add_video" /\ last.after = "remove_video" /\ last.err = ""
    /\ last.video_id \in DOMAIN store
    /\ owned(index, last.video_id) # {}

\* C8: resolve_video of a stored identifier returns the video stored under
\* it, also when the identifier is all digits or occurs in another title.
C8_ExactIdWins ==
    (last.op = "resolve_video" /\ last.arg \in DOMAIN store)
        => /\ last.err = ""
           /\ Len(last.videos) = 1
           /\ last.videos[1].video_id = last.arg
           /\ last.videos[1].title = store[last.arg].title
           /\ last.videos[1].added_at = store[last.arg].added_at

\* the all-digit identifier resolved while the position it spells holds
\* another video
C8_Witness ==
    /\ last.op = "resolve_video" /\ last.arg = V3 /\ V3 \in DOMAIN store
    /\ Cardinality(DOMAIN store) >= 2
    /\ \E v \in DOMAIN store \ {V3} :
           Cardinality({w \in DOMAIN store : store[w].added_at > store[v].added_at}) = 1

\* C9: resolve_video of a string of decimal digits that is no stored
\* identifier and spells n, 1 <= n <= count, returns the video that exactly
\* n - 1 stored videos are newer than.
C9_PositionalIndex ==
    (/\ last.op = "resolve_video" /\ last.arg \notin DOMAIN store
     /\ IntParses(last.arg)
     /\ 1 <= int(last.arg) /\ int(last.arg) <= Cardinality(DOMAIN store))
        => /\ last.err = ""
           /\ Len(last.videos) = 1
           /\ last.videos[1].video_id \in DOMAIN store
           /\ Cardinality({w \in DOMAIN store :
                  store[w].added_at > store[last.videos[1].video_id].added_at})
              = int(last.arg) - 1

\* three videos stored, "3" resolved to the oldest
C9_Witness ==
    /\ last.op = "resolve_video" /\ last.arg = <<"3">> /\ last.err = ""
    /\ Cardinality(DOMAIN store) = 3
    /\ \A w \in DOMAIN store : store[w].added_at >= last.videos[1].added_at

\* C10: resolve_video of a string of decimal digits that is no stored
\* identifier and spells 0 or more than count raises VideoNotFoundError,
\* whose message says out of range and gives the count; no video is returned.
C10_OutOfRange ==
    (/\ last.op = "resolve_video" /\ last.arg \notin DOMAIN store
     /\ IntParses(last.arg)
     /\ (int(last.arg) = 0 \/ int(last.arg) > Cardinality(DOMAIN store)))
        => /\ last.err = "VideoNotFoundError"
           /\ last.videos = << >>
           /\ \E k \in 1..Len(last.msg) :
                  /\ last.msg[k] = " out of range. Library has "
                  /\ SubSeq(last.msg, k + 1, Len(last.msg))
                       = str(Cardinality(DOMAIN store)) \o <<" video(s).">>

\* three videos stored, "4" out of range
C10_Witness ==
    /\ last.op = "resolve_video" /\ last.arg = <<"4">>
    /\ Cardinality(DOMAIN store) = 3
    /\ last.err = "VideoNotFoundError"

\* the stored videos whose lowercased title or channel contains the
\* lowercased query, and the place of one among them, newest first
Matching(query) ==
    {v \in DOMAIN store : \/ Contains(lower(query), lower(store[v].title))
                          \/ Contains(lower(query), lower(store[v].channel))}
Place(v, among) ==
    1 + Cardinality({w \in among : store[w].added_at > store[v].added_at})
TitleLine(v, among) == <<"  ">> \o str(Place(v, among)) \o <<". ">> \o store[v].title

\* C11: resolve_video of an all-digit string that is no stored identifier
\* never raises AmbiguousVideoError and never answers as the substring tier
\* does: a video returned is the one at the position the digits spell, and a
\* VideoNotFoundError is the out-of-range one.
C11_DigitsNeverSubstring ==
    (/\ last.op = "resolve_video" /\ last.arg \notin DOMAIN store
     /\ isdigit(last.arg))
        => /\ last.err # "AmbiguousVideoError"
           /\ last.err = "" =>
                 /\ IntParses(last.arg)
                 /\ Place(last.videos[1].video_id, DOMAIN store) = int(last.arg)
           /\ last.err = "VideoNotFoundError" =>
                 /\ last.msg[1] = "Index "
                 /\ ~ Contains(<<"No video matching: ">>, last.msg)

\* "2" occurs in the titles of two stored videos and is resolved by position
C11_Witness ==
    /\ last.op = "resolve_video" /\ last.arg = <<"2">>
    /\ Matching(last.arg) = {V1, V3}
    /\ last.err = ""

LastMade(calls) == IF calls = << >> THEN "" ELSE calls[Len(calls)]

\* C13: the engine succeeding, an add_video whose classifier is available
\* and raises LLMError returns the video without tags; the store holds it
\* without tags and the index (when configured) holds the fragments of its
\* transcript.
C13_AutoClassifyBestEffort ==
    (last.op = "add_video" /\ LastMade(last.calls) = "classify")
        => /\ last.err = ""
           /\ Len(last.videos) = 1
           /\ last.videos[1].video_id = last.video_id
           /\ last.videos[1].tags = << >>
           /\ last.video_id \in DOMAIN store
           /\ store[last.video_id].tags = << >>
           /\ vectorstore =>
                 LET t == last.videos[1].transcript
                 IN /\ \A f \in owned(index, last.video_id) : IsOf(f, last.video_id, t)
                    /\ Cardinality(owned(index, last.video_id)) = Len(t)

\* an add_video whose classifier failed, the transcript indexed
C13_Witness ==
    /\ last.op = "add_video" /\ LastMade(last.calls) = "classify"
    /\ Made(last.calls, "index_video")
    /\ Cardinality(owned(index, last.video_id)) = 3

\* C14: a classify_video(id) that returns leaves as the stored tags of id
\* the classifier's output and nothing of the tags held before, returns that
\* output, and leaves the store as it was when id held that output already.
C14_ClassifyOverwrites ==
    [][ \A video_id \in TwoIds, llm \in LLMs :
            (ClassifyVideo(video_id, llm) /\ last'.err = "")
                => /\ store'[video_id].tags = llm.tags
                   /\ last'.videos[1].tags = llm.tags
                   /\ \A v \in DOMAIN store' \ {video_id} :
                          v \in DOMAIN store /\ store'[v] = store[v]
                   /\ store[video_id].tags = llm.tags => store' = store ]_vars

\* a video holding two tags is classified again with one
C14_Witness ==
    /\ last.op = "classify_video" /\ last.err = ""
    /\ last.held = <<"ML", "AI">>
    /\ store[last.video_id].tags = <<"AI">>

\* C15: classify_video of a stored video raises RuntimeError when no
\* classifier is available and LLMError when the classifier fails; the store
\* and the index are left as they were.
C15_ExplicitClassifyFailsLoudly ==
    [][ \A video_id \in TwoIds, llm \in LLMs :
            (/\ ClassifyVideo(video_id, llm) /\ video_id \in DOMAIN store
             /\ (~ llm.available \/ ~ llm.ok))
                => /\ last'.err = IF llm.available THEN "LLMError" ELSE "RuntimeError"
                   /\ last'.videos = << >>
                   /\ store' = store /\ index' = index ]_vars

\* the classifier fails for a video that holds tags
C15_Witness ==
    /\ last.op = "classify_video" /\ last.err = "LLMError"
    /\ last.held # << >>
    /\ store[last.video_id].tags = last.held

\* the identifiers of a listing, in its order
Ids(videos) == [i \in 1..Len(videos) |-> videos[i].video_id]

\* C16: save of a video whose identifier is stored leaves the set of stored
\* identifiers, the added_at stored for it and the order of list_all as they
\* were, whatever added_at the video saved carries; the title and the tags
\* stored are the ones saved.
C16_UpsertInPlace ==
    [][ (last'.op = "save" /\ last'.video_id \in DOMAIN store)
        => /\ DOMAIN store' = DOMAIN store
           /\ store'[last'.video_id].added_at = store[last'.video_id].added_at
           /\ Ids(list_all(store')) = Ids(list_all(store))
           /\ store'[last'.video_id].title = last'.videos[1].title
           /\ store'[last'.video_id].tags = last'.videos[1].tags
           /\ \A v \in DOMAIN store \ {last'.video_id} : store'[v] = store[v] ]_vars

\* a stored video that is not the newest is saved again from a Video built
\* later, with another title
C16_Witness ==
    /\ last.op = "save"
    /\ last.videos[1].added_at > store[last.video_id].added_at
    /\ \E w \in DOMAIN store :
           /\ store[w].added_at > store[last.video_id].added_at
           /\ store[w].added_at < last.videos[1].added_at
    /\ store[last.video_id].title = <<"U", "p">>

\* C17: remove_video of an identifier the store does not hold raises
\* VideoNotFoundError, calls neither delete nor delete_video, and leaves the
\* store and the index as they were.
C17_RemoveAbsent ==
    [][ (last'.op = "remove_video" /\ last'.arg \notin DOMAIN store)
        => /\ last'.err = "VideoNotFoundError"
           /\ ~ Made(last'.calls, "delete")
           /\ ~ Made(last'.calls, "delete_video")
           /\ store' = store /\ index' = index ]_vars

\* remove_video of an absent identifier while a vector store is configured
\* and holds fragments
C17_Witness ==
    /\ last.op = "remove_video" /\ last.arg \notin DOMAIN store
    /\ last.err = "VideoNotFoundError"
    /\ vectorstore /\ index # {}

\* C18: every result of a search scoped to an identifier is a fragment of
\* that identifier.
C18_ScopedSearch ==
    (last.op = "search" /\ last.scope # << >>)
        => \A i \in 1..Len(last.results) : last.results[i].video_id = last.scope

\* a scoped search gives a result while another video holds a fragment as
\* near to the query
C18_Witness ==
    /\ last.op = "search" /\ last.scope # << >>
    /\ last.results # << >>
    /\ \E f \in index :
           /\ f.video_id # last.scope
           /\ Distance(last.arg, f.document) <= last.results[1].score

\* the elements of a list
Elems(list) == {list[i] : i \in 1..Len(list)}

\* C19: every result of a search of the service given a non-empty tag list
\* is a fragment of a stored video that holds one of the tags given.
C19_TagFilter ==
    (last.op = "McpTubeService.search" /\ last.err = "" /\ last.tags # << >>)
        => \A i \in 1..Len(last.results) :
               /\ last.results[i].video_id \in DOMAIN store
               /\ Elems(store[last.results[i].video_id].tags) \cap Elems(last.tags) # {}

\* C20: a search of the service without a vector store raises RuntimeError
\* and returns nothing.
C20_SearchNeedsIndex ==
    (last.op = "McpTubeService.search" /\ ~ vectorstore)
        => /\ last.err = "RuntimeError"
           /\ last.results = << >>

\* a search without a vector store while the store holds a video
C20_Witness ==
    /\ last.op = "McpTubeService.search" /\ ~ vectorstore
    /\ DOMAIN store # {}
    /\ last.err = "RuntimeError"

\* C21: get_frame_by_query of a stored video that owns no fragment, a vector
\* store configured, raises without calling extract_frame, and what it raises
\* is not the FrameExtractionError that a failed capture of a found fragment
\* raises.
C21_NoMatchIsNotFrameFailure ==
    last.op = "get_frame_by_query"
        => /\ (/\ last.video_id \in DOMAIN store /\ vectorstore
               /\ owned(index, last.video_id) = {})
                  => /\ last.err \notin {"", "FrameExtractionError"}
                     /\ ~ Made(last.calls, "extract_frame")
           /\ last.raised # << >>
                  => /\ last.err = "FrameExtractionError"
                     /\ owned(index, last.video_id) # {}
                     /\ \E f \in owned(index, last.video_id) : f.start = last.n

\* a stored video without fragments is asked for a frame while the index
\* holds fragments of another
C21_Witness ==
    /\ last.op = "get_frame_by_query"
    /\ last.video_id \in DOMAIN store /\ vectorstore
    /\ owned(index, last.video_id) = {} /\ index # {}
    /\ last.err = "VideoNotFoundError"

\* C22: list_all returns one video for each stored identifier, newest
\* first, each without transcript and chapters; get of a stored identifier
\* returns the segments and the chapters that were saved.
C22_ListingIsMetadataOnly ==
    /\ last.op = "list_all" =>
          /\ Len(last.videos) = Cardinality(DOMAIN store)
          /\ Elems(Ids(last.videos)) = DOMAIN store
          /\ \A i \in 1..Len(last.videos) :
                /\ last.videos[i].transcript = << >>
                /\ last.videos[i].chapters = << >>
                /\ last.videos[i].title = store[last.videos[i].video_id].title
                /\ last.videos[i].added_at = store[last.videos[i].video_id].added_at
                /\ i < Len(last.videos) =>
                      last.videos[i].added_at >= last.videos[i + 1].added_at
    /\ (last.op = "get" /\ last.video_id \in DOMAIN store) =>
          /\ Len(last.videos) = 1
          /\ last.videos[1].video_id = last.video_id
          /\ Len(last.videos[1].transcript) = 1
          /\ last.videos[1].transcript[1].text = S1.text
          /\ last.videos[1].transcript[1].start = S1.start
          /\ last.videos[1].transcript[1].duration = S1.duration
          /\ last.videos[1].chapters = Catalogue(last.video_id).chapters

\* two videos listed, the first one saved being the one that has a chapter
C22_Witness ==
    /\ last.op = "list_all" /\ Len(last.videos) = 2
    /\ last.videos[2].video_id = V1
    /\ store[V1].chapters # << >> /\ store[V1].transcript # << >>

\* C23: a get_frame, a get_frame_by_query or a report during which frame
\* capture or text generation raised does not return.
C23_OnlyAutoClassifySwallows ==
    (/\ last.op \in {"get_frame", "get_frame_by_query",
                     "generate_report", "generate_report_from_query"}
     /\ last.raised # << >>)
        => last.err # ""

\* C23, restated: a failure of the classifier inside add_video and a failure
\* of frame capture inside a report are caught, and the operation returns
\* (the report without that frame); a failure of the classifier in
\* classify_video, of text generation in a report, and of frame capture in
\* get_frame and get_frame_by_query makes the operation fail with that error.
C23_CaughtInAddAndInReportFrames ==
    /\ (last.op \in {"get_frame", "get_frame_by_query"} /\ last.raised # << >>)
          => last.err = "FrameExtractionError"
    /\ (last.op \in {"generate_report", "generate_report_from_query"}
        /\ last.raised # << >>)
          => IF Made(last.raised, "LLMError")
             THEN last.err = "LLMError"
             ELSE last.err = "" /\ last.n = 0
    /\ (last.op = "classify_video" /\ LastMade(last.calls) = "classify")
          => last.err = "LLMError"
    /\ (last.op = "add_video" /\ LastMade(last.calls) = "classify")
          => last.err = "" /\ last.video_id \in DOMAIN store

C23_Witness ==
    /\ last.op = "generate_report"
    /\ last.raised = <<"FrameExtractionError">>
    /\ last.err = ""
    /\ Made(last.calls, "extract_frame")

\* C24: a remove_video that does not reject its identifier as absent has
\* deleted the record, before the purge of the index; with a vector store
\* the purge was asked for; and the identifier is absent from the store
\* whether the purge removed the fragments or failed.
C24_DeleteThenPurge ==
    (last.op = "remove_video" /\ last.err # "VideoNotFoundError")
        => /\ last.err = ""
           /\ last.arg \notin DOMAIN store
           /\ Made(last.calls, "delete")
           /\ vectorstore =>
                 \E i, j \in 1..Len(last.calls) :
                     /\ i < j
                     /\ last.calls[i] = "delete"
                     /\ last.calls[j] = "delete_video"
           /\ ~ vectorstore => ~ Made(last.calls, "delete_video")

\* a removal whose purge failed: the record is gone, its fragments are not
C24_Witness ==
    /\ last.op = "remove_video" /\ last.err = ""
    /\ Made(last.calls, "delete_video")
    /\ last.arg \notin DOMAIN store
    /\ owned(index, last.arg) # {}

\* C25: the engine succeeding, an add_video that returns with a vector
\* store configured leaves in the index, for each segment of the transcript
\* stored, exactly one fragment of the new identifier at that position with
\* the segment's start and end, no other fragment of it, and the fragments
\* of the other identifiers as they were; with an empty transcript
\* index_video is not called and the index is as it was.
C25_OneFragmentPerSegment ==
    [][ (last'.op = "add_video" /\ last'.err = "" /\ vectorstore)
        => LET id == last'.video_id
               t  == get(store', id)[1].transcript
           IN /\ t # << >> =>
                    /\ Made(last'.calls, "index_video")
                    /\ \A f \in owned(index', id) : IsOf(f, id, t)
                    /\ \A i \in 1..Len(t) :
                           Cardinality({f \in index' :
                               /\ f.video_id = id
                               /\ f.segment_index = i - 1
                               /\ f.start = t[i].start
                               /\ f.end = t[i].start + t[i].duration}) = 1
                    /\ Cardinality(owned(index', id)) = Len(t)
                    /\ index' \ owned(index', id) = index
              /\ t = << >> =>
                    /\ ~ Made(last'.calls, "index_video")
                    /\ index' = index ]_vars

\* a second video was added with three segments while the first is indexed
C25_Witness ==
    /\ last.op = "add_video" /\ last.err = "" /\ vectorstore
    /\ Cardinality(owned(index, last.video_id)) = 3
    /\ index # owned(index, last.video_id)

\* a video was added with an empty transcript while another is indexed
C25_WitnessEmpty ==
    /\ last.op = "add_video" /\ last.err = "" /\ vectorstore
    /\ get(store, last.video_id)[1].transcript = << >>
    /\ index # {}

\* the batches one after the other
RECURSIVE Flatten(_)
Flatten(batches) ==
    IF batches = << >> THEN << >> ELSE Head(batches) \o Flatten(Tail(batches))

\* the key of the fragment of a position (1-based) of a segment list
KeyOf(video_id, i) == video_id \o <<"_">> \o str(i - 1)

\* C26, as stated: an index_video that returns returns the number of
\* segments it was given.
C26_ReturnsN ==
    (last.op = "index_video" /\ last.err = "")
        => last.n = Len(last.segments)

\* C26, restated: the engine succeeding, index_video gives the engine the
\* fragments of the segments whose text is not blank, in non-empty batches
\* of at most the ceiling, every batch but the last full, the fragments in
\* the order of their segments and each in one batch; the index holds all of
\* them and the call returns their number (the number of segments when no
\* text is blank).
C26_Batches ==
    (last.op = "index_video" /\ last.err = "")
        => LET flat == Flatten(last.batches)
               kept == NotBlank(last.segments)
           IN /\ \A b \in 1..Len(last.batches) :
                    /\ Len(last.batches[b]) >= 1
                    /\ Len(last.batches[b]) <= BATCH_SIZE
                    /\ b < Len(last.batches) => Len(last.batches[b]) = BATCH_SIZE
              /\ Len(flat) = Cardinality(kept)
              /\ Elems(flat) = {KeyOf(last.arg, i) : i \in kept}
              /\ \A p, q \in 1..Len(flat) : \A i, j \in kept :
                     (p < q /\ flat[p] = KeyOf(last.arg, i) /\ flat[q] = KeyOf(last.arg, j))
                         => i < j
              /\ \A p \in 1..Len(flat) : \E f \in index : f.id = flat[p]
              /\ last.n = Cardinality(kept)
              /\ kept = 1..Len(last.segments) => last.n = Len(last.segments)

\* one segment more than a full batch: two batches, all indexed
C26_Witness ==
    /\ last.op = "index_video" /\ last.err = ""
    /\ Len(last.segments) = BATCH_SIZE + 1
    /\ Len(last.batches) = 2
    /\ Len(last.batches[2]) = 1
    /\ last.n = BATCH_SIZE + 1
    /\ Cardinality(owned(index, last.arg)) = BATCH_SIZE + 1

\* C27: the engine succeeding, in every state the index holds one fragment
\* at most under a key, the key of a fragment is that of its identifier and
\* position, and two fragments of different identifiers or positions have
\* different keys; no batch of an index_video holds a key the collection
\* holds when the batch is added, also when the identifier was indexed
\* before, none of whose earlier fragments is left.
C27_KeysNeverCollide ==
    [][ /\ \A f, g \in index' :
               /\ f.id = KeyOf(f.video_id, f.segment_index + 1)
               /\ f.id = g.id <=> (f.video_id = g.video_id
                                   /\ f.segment_index = g.segment_index)
               /\ f.id = g.id => f = g
        /\ (last'.op = "index_video" /\ last'.segments # << >>)
            => /\ last'.collisions = << >>
               /\ \A f \in owned(index', last'.arg) :
                      IsOf(f, last'.arg, last'.segments)
               /\ index' \ owned(index', last'.arg) = index \ owned(index, last'.arg) ]_vars

\* an identifier indexed again, with the keys of its earlier fragments,
\* while another identifier holds fragments at the same positions
C27_Witness ==
    /\ last.op = "index_video" /\ last.after = "index_video" /\ last.err = ""
    /\ Len(Flatten(last.batches)) = 3
    /\ \E f \in index : f.video_id # last.arg /\ f.segment_index = 0
    /\ \E f \in index : f.video_id # last.arg /\ f.segment_index = 2

\* the place where an identifier first owns a result
FirstSeen(results, video_id) ==
    CHOOSE i \in 1..Len(results) :
        /\ results[i].video_id = video_id
        /\ \A j \in 1..(i - 1) : results[j].video_id # video_id

\* C28: a generate_report_from_query whose search gives results asks the
\* store once for each identifier that owns a result, and gives the
\* generator the full records of these identifiers, each once, in the order
\* in which the identifiers first own a result.
C28_OwnersOnceInRankOrder ==
    (/\ last.op = "generate_report_from_query" /\ last.results # << >>
     /\ last.err # "VideoNotFoundError")
        => LET owners == {last.results[i].video_id : i \in 1..Len(last.results)}
               ids == Ids(last.videos)
           IN /\ Elems(ids) = owners
              /\ Len(ids) = Cardinality(owners)
              /\ Cardinality({c \in 1..Len(last.calls) : last.calls[c] = "get"})
                     = Cardinality(owners)
              /\ \A p, q \in 1..Len(ids) :
                     p < q => FirstSeen(last.results, ids[p])
                                  < FirstSeen(last.results, ids[q])
              /\ \A p \in 1..Len(ids) : last.videos[p] = get(store, ids[p])[1]
              /\ Made(last.calls, "_complete")

\* four results of two videos, the first one owned by the video added
\* first, which the listing of the store puts last
C28_Witness ==
    /\ last.op = "generate_report_from_query" /\ last.err = ""
    /\ Len(last.results) = 4
    /\ Len(last.videos) = 2
    /\ last.videos[1].added_at < last.videos[2].added_at
    /\ Ids(list_all(store)) = <<last.videos[2].video_id, last.videos[1].video_id>>

\* C29: an add_video that raises leaves the set of stored identifiers as it
\* was.
C29_FailedAddStoresNothing ==
    [][ (last'.op = "add_video" /\ last'.err # "")
        => DOMAIN store' = DOMAIN store ]_vars

\* the operations of the service that only read
QueryOps == {"list_videos", "get_info", "McpTubeService.search", "resolve_video",
             "get_frame_by_query"}

\* C30: list_videos, get_info, search, resolve_video and get_frame_by_query
\* leave the store and the index as they were, returning or raising; the set
\* of stored identifiers changes only in add_video and remove_video, the
\* tags of an identifier are set only in add_video and changed only in
\* classify_video, and the index changes only in add_video and remove_video.
C30_QueriesChangeNothing ==
    [][ /\ last'.op \in QueryOps => (store' = store /\ index' = index)
        /\ DOMAIN store' # DOMAIN store => last'.op \in {"add_video", "remove_video"}
        /\ \A v \in DOMAIN store' :
               /\ v \notin DOMAIN store => last'.op = "add_video"
               /\ (v \in DOMAIN store /\ store'[v].tags # store[v].tags)
                      => last'.op = "classify_video"
        /\ index' # index => last'.op \in {"add_video", "remove_video"} ]_vars

\* a get_frame_by_query that raised and a listing that returned, the store
\* holding two videos, one classified, and the index fragments
C30_Witness ==
    /\ last.op = "get_frame_by_query" /\ last.err # ""
    /\ Cardinality(DOMAIN store) = 2
    /\ \E v \in DOMAIN store : store[v].tags # << >>
    /\ index # {}

C30_WitnessReturns ==
    /\ last.op = "list_videos" /\ last.err = ""
    /\ Len(last.videos) = 2
    /\ \E v \in DOMAIN store : store[v].transcript # << >>
    /\ index # {}

====
